---- MODULE Spec2Model ----
(***************************************************************************)
(* Model of the local NLP task-command processor                           *)
(* (apps/backend/src/services/ai/local-nlp/main.py).                       *)
(*                                                                         *)
(* Texts are TLA+ strings; a character is a string of length one.  The     *)
(* regular expressions of the source are written as pattern values and     *)
(* run by a backtracking matcher that yields the possible matches in the   *)
(* priority order of Python's re module (greedy before shorter, lazy       *)
(* before longer, alternatives left to right).                             *)
(*                                                                         *)
(* Alphabet of the modelled inputs: ASCII letters, digits and punctuation, *)
(* the space as the only whitespace character, lower-case Greek letters    *)
(* (plain and accented).  Curly quotes and line breaks do not occur in the *)
(* modelled inputs, so "$" is the end of the string and "." is any         *)
(* character.                                                              *)
(***************************************************************************)
EXTENDS Integers, Sequences, FiniteSets, TLC

VARIABLES
    request,      \* process_text: the ProcessRequest, <<>> when process() is called directly
    status,       \* process_text: HTTP status of the outcome, 0 while there is none
    text,         \* the argument of process()
    clock,        \* the wall clock, what LOCAL_NOW() returns when called
    ticks,        \* how often the clock has advanced during the call
    pc,           \* position inside process()
    text_lower,   \* process: text.lower().strip()
    intent,       \* process: result of _detect_intent
    entities,     \* process: result of _extract_entities
    title,        \* process: result of _extract_title
    priority,     \* process: result of _extract_priority
    now,          \* _extract_datetime_iso: the captured LOCAL_NOW()
    today,        \* next_weekday_delta: weekday of its own LOCAL_NOW()
    days_ahead,   \* _extract_datetime_iso: <<>> is None, <<n>> is n
    base_dt,      \* _extract_datetime_iso: <<>> is None, <<dt>> a datetime
    extracted_time, \* _extract_time's result: <<>> is None, <<[hour, minute]>> a time
    due_date,     \* process: due_iso,   <<>> is None, <<s>> an ISO string
    start_date,   \* process: start_iso, <<>> is None, <<s>> an ISO string
    confidence    \* process: confidence in hundredths (0.45 is 45)

vars == <<request, status, text, clock, ticks, pc, text_lower, intent, entities,
          title, priority, now, today, days_ahead, base_dt, extracted_time,
          due_date, start_date, confidence>>

-----------------------------------------------------------------------------
(* Characters and character classes                                        *)

Ch(s, i) == SubSeq(s, i, i)

CharsOf(s) == { Ch(s, i) : i \in 1..Len(s) }

LatinLower == CharsOf("abcdefghijklmnopqrstuvwxyz")
LatinUpper == CharsOf("ABCDEFGHIJKLMNOPQRSTUVWXYZ")
Digits == CharsOf("0123456789")
\* the range α-ω of the source's character classes (U+03B1..U+03C9)
GreekLower == CharsOf("αβγδεζηθικλμνξοπρςστυφχψω")
\* the range Α-Ω of the source's character classes (U+0391..U+03A9)
GreekUpper == CharsOf("ΑΒΓΔΕΖΗΘΙΚΛΜΝΞΟΠΡΣΤΥΦΧΨΩ")
\* accented letters: word characters outside the ranges α-ω and Α-Ω
GreekAccented == CharsOf("άέήίόύώ")

UpperChars == "ABCDEFGHIJKLMNOPQRSTUVWXYZΑΒΓΔΕΖΗΘΙΚΛΜΝΞΟΠΡΣΤΥΦΧΨΩ"
LowerChars == "abcdefghijklmnopqrstuvwxyzαβγδεζηθικλμνξοπρστυφχψω"

LowerMap == [c \in CharsOf(UpperChars) |->
               Ch(LowerChars, CHOOSE i \in 1..Len(UpperChars) : Ch(UpperChars, i) = c)]

CharLower(c) == IF c \in DOMAIN LowerMap THEN LowerMap[c] ELSE c

RECURSIVE Lower(_)
\* str.lower()
Lower(s) ==
    IF s = "" THEN ""
    ELSE IF Len(s) = 1 THEN CharLower(s)
    ELSE Lower(SubSeq(s, 1, Len(s) \div 2)) \o Lower(SubSeq(s, Len(s) \div 2 + 1, Len(s)))

IsSpace(c) == c = " "

SetMin(S) == CHOOSE x \in S : \A y \in S : x <= y
SetMax(S) == CHOOSE x \in S : \A y \in S : x >= y

Min(a, b) == IF a < b THEN a ELSE b

\* the part of s between the first and the last position of keep
Between(s, keep) == IF keep = {} THEN "" ELSE SubSeq(s, SetMin(keep), SetMax(keep))

\* str.strip()
Strip(s) == Between(s, { i \in 1..Len(s) : ~IsSpace(Ch(s, i)) })

\* [A-Za-zΑ-Ωα-ω0-9]
NameHead == LatinLower \cup LatinUpper \cup GreekUpper \cup GreekLower \cup Digits

\* \w of a str pattern
WordChars == NameHead \cup GreekAccented \cup {"_"}

IsWord(c) == c \in WordChars

\* the named character classes of the patterns; a class of Negated is the
\* complement of its set
ClassSets == [
    s |-> {" "},                                   \* \s
    d |-> Digits,                                  \* \d, [0-9]
    w |-> WordChars,                               \* \w
    any |-> {},                                    \* .
    notrbrace |-> {"}"},                           \* [^}]
    notquote |-> {"\"", "'"},                      \* [^"”'’]
    quote |-> {"\"", "'"},                         \* ["“'‘] and ["”'’]
    hex |-> Digits \cup CharsOf("abcdefABCDEF"),   \* [0-9a-fA-F]
    name1 |-> NameHead,                            \* [A-Za-zΑ-Ωα-ω0-9]
    name |-> NameHead \cup {" ", "-", ".", "_"},   \* [A-Za-zΑ-Ωα-ω0-9 \-\._]
    slashdash |-> {"/", "-"} ]                     \* [\/\-]

Negated == {"any", "notrbrace", "notquote"}

InClass(cls, c) == (c \in ClassSets[cls]) # (cls \in Negated)

-----------------------------------------------------------------------------
(* Patterns                                                                *)

L(w) == [k |-> "lit", w |-> w]
\* greedy repetition of a class, lo to hi times; hi = -1 is unbounded
C(cls, lo, hi) == [k |-> "cls", c |-> cls, lo |-> lo, hi |-> hi, lazy |-> FALSE]
\* lazy repetition
CL(cls, lo, hi) == [k |-> "cls", c |-> cls, lo |-> lo, hi |-> hi, lazy |-> TRUE]
Sq(ps) == [k |-> "seq", ps |-> ps]
Alt(ps) == [k |-> "alt", ps |-> ps]
Empty == [k |-> "seq", ps |-> <<>>]
Opt(p) == [k |-> "alt", ps |-> <<p, Empty>>]
B == [k |-> "b"]                  \* \b
End == [k |-> "end"]              \* $
Bgn == [k |-> "bgn"]              \* ^
Look(p) == [k |-> "look", p |-> p]     \* (?=p)
Mk(n) == [k |-> "mark", n |-> n]       \* a group boundary
\* the capturing group number g around p
G(g, p) == Sq(<<Mk(2 * g - 1), p, Mk(2 * g)>>)
\* an alternation of literal words
Words(ws) == Alt([i \in 1..Len(ws) |-> L(ws[i])])
S1 == C("s", 1, -1)               \* \s+
S0 == C("s", 0, -1)               \* \s*

\* number of group boundaries a match state records
NMarks == 6

\* \b at position i (before the character i; Len(s)+1 is the end)
WordBoundary(s, i) ==
    (i > 1 /\ IsWord(Ch(s, i - 1))) # (i <= Len(s) /\ IsWord(Ch(s, i)))

\* the least element of S, d when there is none
FirstOr(S, d) == IF S = {} THEN d ELSE SetMin(S)

\* n, limited to cap (-1: no limit)
LimitTo(n, cap) == IF cap # -1 /\ n > cap THEN cap ELSE n

\* how many characters of class cls follow position i, at most cap
RunLen(s, i, cls, cap) ==
    LimitTo(FirstOr({ j \in i..Len(s) : ~InClass(cls, Ch(s, j)) }, Len(s) + 1) - i, cap)

\* the states after n to p.lo (lazy: p.lo to n) repetitions of the class of p
Repetitions(p, st, n) ==
    [i \in 1..(n - p.lo + 1) |->
       [st EXCEPT !.pos = st.pos + (IF p.lazy THEN p.lo + i - 1 ELSE n - i + 1)]]

\* the first half of the sequence q, and the rest of it
FirstHalf(q) == SubSeq(q, 1, Len(q) \div 2)
SecondHalf(q) == SubSeq(q, Len(q) \div 2 + 1, Len(q))

RECURSIVE Run(_, _, _)
RECURSIVE Step(_, _, _, _)
\* The match states reached by matching the patterns ps one after the other,
\* from each of the states sts (a state is [pos, caps, start]): all the ways
\* to match, in priority order.
Run(ps, s, sts) ==
    IF sts = <<>> \/ ps = <<>> THEN sts
    ELSE IF Len(sts) > 1
    THEN Run(ps, s, FirstHalf(sts)) \o Run(ps, s, SecondHalf(sts))
    ELSE Step(ps[1], Tail(ps), s, sts[1])

\* the pattern p, then the patterns rest, from the state st
Step(p, rest, s, st) ==
    CASE p.k = "lit" ->
           IF st.pos + Len(p.w) - 1 <= Len(s)
              /\ SubSeq(s, st.pos, st.pos + Len(p.w) - 1) = p.w
           THEN Run(rest, s, <<[st EXCEPT !.pos = st.pos + Len(p.w)]>>)
           ELSE <<>>
      [] p.k = "cls" -> Run(rest, s, Repetitions(p, st, RunLen(s, st.pos, p.c, p.hi)))
      [] p.k = "seq" -> Run(p.ps \o rest, s, <<st>>)
      [] p.k = "alt" ->
           IF p.ps = <<>> THEN <<>>
           ELSE IF Len(p.ps) = 1 THEN Run(p.ps \o rest, s, <<st>>)
           ELSE Run(<<Alt(FirstHalf(p.ps))>> \o rest, s, <<st>>)
                \o Run(<<Alt(SecondHalf(p.ps))>> \o rest, s, <<st>>)
      [] p.k \in {"b", "end", "bgn", "look"} ->
           IF CASE p.k = "b" -> WordBoundary(s, st.pos)
                [] p.k = "end" -> st.pos = Len(s) + 1
                [] p.k = "bgn" -> st.pos = 1
                [] p.k = "look" -> Run(<<p.p>>, s, <<st>>) # <<>>
           THEN Run(rest, s, <<st>>)
           ELSE <<>>
      [] p.k = "mark" -> Run(rest, s, <<[st EXCEPT !.caps[p.n] = st.pos]>>)

\* the first of the sequence r, as <<>> or <<m>>
FirstOf(r) == IF r = <<>> THEN <<>> ELSE <<r[1]>>

\* re.match at position i: <<>> or <<m>>, m = [start, pos, caps]
MatchAt(p, s, i) ==
    FirstOf(Run(<<p>>, s, <<[pos |-> i, caps |-> [n \in 1..NMarks |-> 0], start |-> i]>>))

\* a when it has an element, b otherwise
FirstNonEmpty(a, b) == IF a # <<>> THEN a ELSE b

RECURSIVE SearchIn(_, _, _, _)
\* the leftmost match starting at one of the positions lo..hi
SearchIn(p, s, lo, hi) ==
    IF lo > hi THEN <<>>
    ELSE IF lo = hi THEN MatchAt(p, s, lo)
    ELSE FirstNonEmpty(SearchIn(p, s, lo, (lo + hi) \div 2),
                       SearchIn(p, s, (lo + hi) \div 2 + 1, hi))

\* the leftmost match starting at position i or later
SearchFrom(p, s, i) == SearchIn(p, s, i, Len(s) + 1)

\* re.search(p, s): <<>> is None
Search(p, s) == SearchFrom(p, s, 1)

\* re.search(p, s, re.IGNORECASE) as a truth value, p written in lower case
Found(p, s) == Search(p, Lower(s)) # <<>>

\* m.group(g): the text of group g of match m (the group took part)
Group(s, m, g) == SubSeq(s, m.caps[2 * g - 1], m.caps[2 * g] - 1)
HasGroup(m, g) == m.caps[2 * g] # 0

\* where the scan goes on after the match m (an empty match moves one on)
NextStart(m) == IF m.pos > m.start THEN m.pos ELSE m.pos + 1

RECURSIVE FindIter(_, _, _)
RECURSIVE FindMore(_, _, _)
\* re.finditer(p, s): the non-overlapping matches from position i on
FindIter(p, s, i) == FindMore(p, s, SearchFrom(p, s, i))

FindMore(p, s, m) ==
    IF m = <<>> THEN <<>> ELSE m \o FindIter(p, s, NextStart(m[1]))

RECURSIVE SubFrom(_, _, _, _, _)
RECURSIVE SubOn(_, _, _, _, _, _)
\* the matches are looked for in ls, a string as long as s, and replaced in s
SubFrom(p, s, ls, rep, i) == SubOn(p, s, ls, rep, i, SearchFrom(p, ls, i))

SubOn(p, s, ls, rep, i, m) ==
    IF m = <<>> THEN SubSeq(s, i, Len(s))
    ELSE SubSeq(s, i, m[1].start - 1) \o rep
         \o (IF m[1].pos > m[1].start THEN ""
             ELSE IF m[1].pos > Len(s) THEN "" ELSE Ch(s, m[1].pos))
         \o (IF NextStart(m[1]) > Len(s) + 1 THEN ""
             ELSE SubFrom(p, s, ls, rep, NextStart(m[1])))

\* re.sub(p, rep, s)
Sub(p, rep, s) == IF s = "" THEN "" ELSE SubFrom(p, s, s, rep, 1)

\* re.sub(p, rep, s, flags=re.IGNORECASE), p written in lower case
SubI(p, rep, s) == IF s = "" THEN "" ELSE SubFrom(p, s, Lower(s), rep, 1)

-----------------------------------------------------------------------------
(* Pattern library: LocalNLPProcessor.__init__                             *)

\* r'\b<verb>\s+(?:a\s+)?task\b'
EnCreate(verb) == Sq(<<B, L(verb), S1, Opt(Sq(<<L("a"), S1>>)), L("task"), B>>)
\* r'\b<verb>(?:\s+(?:μία|μια))?\s*(?:εργασία)?\b'
GrCreate(verb) ==
    Sq(<<B, L(verb), Opt(Sq(<<S1, Words(<<"μία", "μια">>)>>)), S0,
         Opt(L("εργασία")), B>>)
\* r'\b<w1>\s+<w2>\b'
TwoWords(w1, w2) == Sq(<<B, L(w1), S1, L(w2), B>>)
\* r'\b<verb>\s+/\d+\b'
VerbTaskId(verb) == Sq(<<B, L(verb), S1, L("/"), C("d", 1, -1), B>>)
\* r'\b<w>\b'
OneWord(w) == Sq(<<B, L(w), B>>)
\* r'\b<stem>[<a><b>]\b'
Stem2(stem, a, b) == Sq(<<B, L(stem), Words(<<a, b>>), B>>)

create_patterns == <<
    EnCreate("create"),
    EnCreate("add"),
    TwoWords("new", "task"),
    EnCreate("make"),
    EnCreate("schedule"),
    GrCreate("δημιούργησε"),
    GrCreate("φτιάξε"),
    GrCreate("πρόσθεσε"),
    GrCreate("καταχώρισε"),
    GrCreate("προγραμμάτισε"),
    TwoWords("νέα", "εργασία"),
    TwoWords("γράψε", "εργασία") >>

update_patterns == <<
    TwoWords("update", "task"),
    TwoWords("modify", "task"),
    TwoWords("change", "task"),
    TwoWords("edit", "task"),
    VerbTaskId("update"),
    VerbTaskId("modify"),
    VerbTaskId("change"),
    VerbTaskId("edit"),
    TwoWords("ενημέρωση", "εργασίας"),
    TwoWords("τροποποίηση", "εργασίας"),
    TwoWords("αλλαγή", "εργασίας"),
    TwoWords("επεξεργασία", "εργασίας"),
    Sq(<<B, L("διόρθωσ"), Words(<<"ε", "η">>), S1, L("εργασία"), B>>),
    Sq(<<B, L("άλλαξ"), Words(<<"ε", "η">>), S1, L("εργασία"), B>>),
    Sq(<<B, L("ενημέρωσε"), S1, L("τη"), Opt(L("ν")), S1, L("εργασία"), B>>) >>

\* the levels from the least to the most urgent
PriorityLevelsAscending == <<"low", "medium", "high", "urgent">>

\* priority_patterns, in the insertion order of the dict
PriorityLevels == <<"urgent", "high", "medium", "low">>

priority_patterns == [
    urgent |-> <<OneWord("urgent"), OneWord("asap"), OneWord("immediately"),
                 OneWord("critical"), OneWord("επείγον"), OneWord("άμεσα"),
                 OneWord("κρίσιμο"), OneWord("επειγόντως")>>,
    high |-> <<TwoWords("high", "priority"), OneWord("important"), OneWord("high"),
               TwoWords("υψηλή", "προτεραιότητα"), Stem2("σημαντικ", "ό", "η"),
               Stem2("υψηλ", "ό", "ή")>>,
    medium |-> <<TwoWords("medium", "priority"), OneWord("normal"), OneWord("medium"),
                 TwoWords("μεσαία", "προτεραιότητα"), Stem2("κανονικ", "ό", "ή"),
                 Stem2("μεσαί", "ο", "α")>>,
    low |-> <<TwoWords("low", "priority"), OneWord("low"), TwoWords("when", "possible"),
              TwoWords("χαμηλή", "προτεραιότητα"), Stem2("χαμηλ", "ό", "ή"),
              Sq(<<B, L("όταν"), S1, L("είναι"), S1, L("δυνατό"), B>>)>> ]

\* any(re.search(p, s, re.IGNORECASE) for p in ps)
AnyFound(ps, s) == \E i \in 1..Len(ps) : Found(ps[i], s)

\* w in s
Contains(s, w) == Search(L(w), s) # <<>>

-----------------------------------------------------------------------------
(* Intent: _detect_intent                                                  *)

ObjectIdPattern == Sq(<<Bgn, C("hex", 24, 24), End>>)
TaskPayloadPattern == Sq(<<L("task={"), G(1, C("notrbrace", 1, -1)), L("}")>>)
FieldNamePattern == Sq(<<B, Words(<<"title", "τίτλος", "name", "όνομα">>), B>>)
UpdateVerbPattern ==
    Sq(<<B, Words(<<"change", "edit", "modify", "update", "alter",
                    "ενημέρωσε", "άλλαξε", "τροποποίησε">>), B>>)
GreekImperativePattern ==
    Sq(<<Words(<<"δημιούργησε", "φτιάξε", "πρόσθεσε", "καταχώρισε",
                 "προγραμμάτισε">>), B>>)

\* lines 255-258: m, the first task payload, holds a 24-digit hex id
HasObjectId(t, m) ==
    m # <<>> /\ MatchAt(ObjectIdPattern, Group(t, m[1], 1), 1) # <<>>

\* lines 255-268: the structured task id rule
StrongUpdate(t) ==
    /\ HasObjectId(t, Search(TaskPayloadPattern, t))
    /\ \/ AnyFound(update_patterns, t)
       \/ Found(FieldNamePattern, t)
       \/ Found(UpdateVerbPattern, t)

\* _detect_intent
DetectIntent(t) ==
    IF StrongUpdate(t) THEN "update_task"
    ELSE IF AnyFound(create_patterns, t) THEN "create_task"
    ELSE IF AnyFound(update_patterns, t) THEN "update_task"
    ELSE IF Search(OneWord("task"), t) # <<>>
            /\ \E w \in {"for", "in", "with", "about"} : Contains(t, w)
         THEN "create_task"
    ELSE IF Search(GreekImperativePattern, t) # <<>> THEN "create_task"
    ELSE "unknown"

-----------------------------------------------------------------------------
(* Entities: _extract_entities                                             *)

structured_pattern ==
    Sq(<<G(1, C("w", 1, -1)), L("={"), G(2, C("notrbrace", 1, -1)), L("}")>>)

valid_types == {"task", "personnel", "work_order", "project", "client"}

StopPrepositions == <<"for", "in", "with", "due", "at", "from", "by", "από", "για",
                      "σε", "με", "μέχρι", "στις", "στο", "στη", "έως", "ως">>

\* (?=\s+(?:for|in|...|$)|$)
StopLookahead == Look(Alt(<<Sq(<<S1, Alt(<<Words(StopPrepositions), End>>)>>), End>>))

\* upper bound of the lazy name tail, {0,60}?
NameTailMax == 60

\* r'<sym>([A-Za-zΑ-Ωα-ω0-9][A-Za-zΑ-Ωα-ω0-9\s\-\.\_]{0,60}?)(?=...)'
NamePattern(sym) ==
    Sq(<<L(sym), G(1, Sq(<<C("name1", 1, 1), CL("name", 0, NameTailMax)>>)),
         StopLookahead>>)

\* r'/([0-9]+)(?=\s|$)'
TaskRefPattern ==
    Sq(<<L("/"), G(1, C("d", 1, -1)), Look(Alt(<<C("s", 1, 1), End>>))>>)

\* the symbols in the order patterns.items() yields them
Symbols == <<"@", "#", "/", "+", "&">>

SymbolPattern(sym) == IF sym = "/" THEN TaskRefPattern ELSE NamePattern(sym)

entity_types == [s \in {"@", "#", "/", "+", "&"} |->
                   CASE s = "@" -> "personnel" [] s = "#" -> "work_order"
                     [] s = "/" -> "task" [] s = "+" -> "project"
                     [] s = "&" -> "client"]

\* EntityMatch; start and end are the 0-based offsets m.start(), m.end()
EntityMatch(type, value, symbol, m) ==
    [type |-> type, value |-> value, symbol |-> symbol,
     start |-> m.start - 1, end |-> m.pos - 1]

RECURSIVE StructuredEntities(_, _, _)
\* lines 297-310
StructuredEntities(t, ms, i) ==
    IF i > Len(ms) THEN <<>>
    ELSE (IF Group(t, ms[i], 1) \in valid_types
          THEN <<EntityMatch(Group(t, ms[i], 1), Group(t, ms[i], 2), "=", ms[i])>>
          ELSE <<>>)
         \o StructuredEntities(t, ms, i + 1)

\* the entities of the matches ms of the symbol sym
EntitiesOf(t, sym, ms) ==
    [i \in 1..Len(ms) |->
       EntityMatch(entity_types[sym], Strip(Group(t, ms[i], 1)), sym, ms[i])]

\* lines 323-330 for one symbol
SymbolMatches(t, sym) == EntitiesOf(t, sym, FindIter(SymbolPattern(sym), t, 1))

RECURSIVE SymbolEntities(_, _)
\* lines 322-330
SymbolEntities(t, k) ==
    IF k > Len(Symbols) THEN <<>>
    ELSE SymbolMatches(t, Symbols[k]) \o SymbolEntities(t, k + 1)

\* _extract_entities
ExtractEntities(t) ==
    FirstNonEmpty(StructuredEntities(t, FindIter(structured_pattern, t, 1), 1),
                  SymbolEntities(t, 1))

-----------------------------------------------------------------------------
(* Priority: _extract_priority                                             *)

RECURSIVE FirstLevel(_, _)
FirstLevel(t, k) ==
    IF k > Len(PriorityLevels) THEN "medium"
    ELSE IF AnyFound(priority_patterns[PriorityLevels[k]], t) THEN PriorityLevels[k]
    ELSE FirstLevel(t, k + 1)

ExtractPriority(t) == FirstLevel(t, 1)

-----------------------------------------------------------------------------
(* Confidence: _calculate_confidence, in hundredths                        *)


ActionVerbPattern ==
    Words(<<"create", "add", "make", "schedule", "update", "modify", "δημιούργησε",
            "πρόσθεσε", "φτιάξε", "προγραμμάτισε", "ενημέρωσε">>)

IntentWeight == 45
EntityWeight == 12
EntityCap == 35
TaskWordWeight == 12
VerbWeight == 8
ConfidenceCap == 100

\* the entity term without its cap
EntityScoreUncapped(n) == n * EntityWeight

\* line 589
EntityScore(n) == Min(EntityCap, n * EntityWeight)

\* _calculate_confidence
CalculateConfidence(t, i, ents) ==
    Min(ConfidenceCap,
        (IF i # "unknown" THEN IntentWeight ELSE 0)
        + EntityScore(Len(ents))
        + (IF Search(OneWord("task"), t) # <<>> \/ Search(OneWord("εργασία"), t) # <<>>
           THEN TaskWordWeight ELSE 0)
        + (IF Search(ActionVerbPattern, t) # <<>> THEN VerbWeight ELSE 0))

-----------------------------------------------------------------------------
(* datetime                                                                *)

\* datetime.MINYEAR, datetime.MAXYEAR
MinYear == 1
MaxYear == 9999

IsLeap(y) == y % 4 = 0 /\ (y % 100 # 0 \/ y % 400 = 0)

DaysInMonth(y, m) ==
    IF m = 2 THEN (IF IsLeap(y) THEN 29 ELSE 28)
    ELSE IF m \in {4, 6, 9, 11} THEN 30 ELSE 31

\* datetime(y, m, d, ...) raises ValueError unless this holds
ValidDate(y, m, d) ==
    /\ MinYear <= y /\ y <= MaxYear
    /\ 1 <= m /\ m <= 12
    /\ 1 <= d /\ d <= DaysInMonth(y, m)

RECURSIVE DaysBeforeMonth(_, _)
DaysBeforeMonth(y, m) ==
    IF m = 1 THEN 0 ELSE DaysBeforeMonth(y, m - 1) + DaysInMonth(y, m - 1)

\* date.toordinal()
Ordinal(dt) ==
    LET y == dt.year - 1
    IN y * 365 + (y \div 4) - (y \div 100) + (y \div 400)
       + DaysBeforeMonth(dt.year, dt.month) + dt.day

\* date.weekday(): Monday is 0
Weekday(dt) == (Ordinal(dt) + 6) % 7

NextDay(dt) ==
    IF dt.day < DaysInMonth(dt.year, dt.month) THEN [dt EXCEPT !.day = dt.day + 1]
    ELSE IF dt.month < 12 THEN [dt EXCEPT !.day = 1, !.month = dt.month + 1]
    ELSE [dt EXCEPT !.day = 1, !.month = 1, !.year = dt.year + 1]

RECURSIVE AddDays(_, _)
\* dt + timedelta(days=n), n >= 0
AddDays(dt, n) == IF n = 0 THEN dt ELSE AddDays(NextDay(dt), n - 1)

RECURSIVE Pad(_, _)
\* the decimal digits of n, zero-padded to width w
Pad(n, w) ==
    IF w = 0 THEN "" ELSE Pad(n \div 10, w - 1) \o Ch("0123456789", (n % 10) + 1)

\* datetime.isoformat()
IsoFormat(dt) ==
    Pad(dt.year, 4) \o "-" \o Pad(dt.month, 2) \o "-" \o Pad(dt.day, 2) \o "T"
    \o Pad(dt.hour, 2) \o ":" \o Pad(dt.minute, 2) \o ":" \o Pad(dt.second, 2)
    \o (IF dt.microsecond # 0 THEN "." \o Pad(dt.microsecond, 6) ELSE "")

RECURSIVE ParseInt(_)
\* int(s) for a string of decimal digits
ParseInt(s) ==
    IF s = "" THEN 0
    ELSE ParseInt(SubSeq(s, 1, Len(s) - 1)) * 10
         + (CHOOSE d \in 0..9 : Ch("0123456789", d + 1) = Ch(s, Len(s)))

-----------------------------------------------------------------------------
(* Date and time tables                                                    *)

GREEK_WEEKDAYS == <<
    <<"δευτέρα", "δευτερα", "δευτερά", "δευτερη", "δευτερα">>,
    <<"τρίτη", "τριτη">>,
    <<"τετάρτη", "τεταρτη">>,
    <<"πέμπτη", "πεμπτη">>,
    <<"παρασκευή", "παρασκευη">>,
    <<"σάββατο", "σαββατο">>,
    <<"κυριακή", "κυριακη">> >>

\* the words whose value is an integer (line 79 drops the others)
GREEK_NUMBER_WORDS_1_12 == <<
    <<"ένα", 1>>, <<"ενa", 1>>, <<"μια", 1>>, <<"μία", 1>>, <<"ενός", 1>>,
    <<"δύο", 2>>, <<"δυο", 2>>,
    <<"τρία", 3>>, <<"τρεις", 3>>, <<"τρια", 3>>,
    <<"τέσσερα", 4>>, <<"τεσσερα", 4>>,
    <<"πέντε", 5>>, <<"πεντε", 5>>,
    <<"έξι", 6>>, <<"εξι", 6>>,
    <<"επτά", 7>>, <<"εφτά", 7>>, <<"εφτα", 7>>, <<"επτα", 7>>,
    <<"οκτώ", 8>>, <<"οκτω", 8>>,
    <<"εννιά", 9>>, <<"εννια", 9>>,
    <<"δέκα", 10>>, <<"δεκα", 10>>,
    <<"έντεκα", 11>>, <<"εντεκα", 11>>,
    <<"δώδεκα", 12>>, <<"δωδεκα", 12>> >>

\* the number of the table rows hit: <<>> is None
NumberAt(hit) ==
    IF hit = {} THEN <<>> ELSE <<GREEK_NUMBER_WORDS_1_12[CHOOSE i \in hit : TRUE][2]>>

\* greek_word_to_hour: <<>> is None
greek_word_to_hour(w) ==
    NumberAt({ i \in 1..Len(GREEK_NUMBER_WORDS_1_12) :
                 GREEK_NUMBER_WORDS_1_12[i][1] = Lower(Strip(w)) })

\* d, or 7 when d is 0
SevenIfZero(d) == IF d = 0 THEN 7 ELSE d

\* the weekday distance without the replacement of 0 by 7
next_weekday_delta_no_wrap(target_weekday, today_weekday) ==
    (target_weekday - today_weekday) % 7

\* next_weekday_delta, given the weekday its own LOCAL_NOW() call returned
next_weekday_delta(target_weekday, today_weekday) ==
    SevenIfZero((target_weekday - today_weekday) % 7)

\* r'(την\s+άλλη|επόμενη)\s+'
NextModifierPattern ==
    Sq(<<Alt(<<Sq(<<L("την"), S1, L("άλλη")>>), L("επόμενη")>>), S1>>)

\* the least index of hits, counted from 0, as <<idx>>; <<>> without a hit
LeastIndex(hits) == IF hits = {} THEN <<>> ELSE <<SetMin(hits) - 1>>

\* the loops of find_weekday_days_ahead: the first weekday a variant of which
\* is found in the text, as <<idx>> with Monday 0, or <<>>
FirstWeekday(t) ==
    LeastIndex({ idx \in 1..Len(GREEK_WEEKDAYS) :
                   \E v \in 1..Len(GREEK_WEEKDAYS[idx]) :
                      Search(OneWord(GREEK_WEEKDAYS[idx][v]), t) # <<>> })

\* lines 93-97, w the weekday found
DeltaTo(t, w, today_weekday) ==
    IF w = <<>> THEN <<>>
    ELSE <<next_weekday_delta(w[1], today_weekday)
           + (IF Search(NextModifierPattern, t) # <<>> THEN 7 ELSE 0)>>

\* find_weekday_days_ahead, given the weekday next_weekday_delta reads
find_weekday_days_ahead(t, today_weekday) ==
    DeltaTo(t, FirstWeekday(t), today_weekday)

\* clamp_time: <<>> is None
clamp_time(hour, minute) ==
    IF 0 <= hour /\ hour <= 23 /\ 0 <= minute /\ minute <= 59
    THEN <<[hour |-> hour, minute |-> minute]>> ELSE <<>>

\* (\d{1,2})(?::(\d{2}))?
HourMinute == Sq(<<G(1, C("d", 1, 2)), Opt(Sq(<<L(":"), G(2, C("d", 2, 2))>>))>>)

time_24h == Sq(<<B, G(1, C("d", 1, 2)), L(":"), G(2, C("d", 2, 2)), B>>)
time_12h_ampm == Sq(<<B, HourMinute, S0, G(3, Words(<<"am", "pm">>)), B>>)
time_12h_greek == Sq(<<B, HourMinute, S0, Words(<<"πμ", "μμ">>), B>>)
time_at_prefix == Sq(<<B, Words(<<"στις", "στη", "στο">>), S1, HourMinute, B>>)
time_wordy ==
    Sq(<<B, G(1, Words(<<"μία", "μια", "ένα", "ενa", "δύο", "δυο", "τρία", "τρεις",
                         "τέσσερα", "πέντε", "έξι", "επτά", "εφτά", "οκτώ", "εννιά",
                         "δέκα", "έντεκα", "δώδεκα">>)),
         S1, Opt(Sq(<<L("η"), S1>>)), L("ώρα"), B>>)

\* part_of_day after the deduplication of lines 187-193
part_of_day == <<
    [pat |-> OneWord("ξημερώματα"), lo |-> 0, hi |-> 5],
    [pat |-> Stem2("πρω", "ί", "ι"), lo |-> 6, hi |-> 11],
    [pat |-> OneWord("μεσημέρι"), lo |-> 12, hi |-> 14],
    [pat |-> OneWord("απόγευμα"), lo |-> 15, hi |-> 18],
    [pat |-> OneWord("βράδυ"), lo |-> 19, hi |-> 22] >>

relatives == <<
    [pat |-> OneWord("σήμερα"), delta |-> 0],
    [pat |-> OneWord("αύριο"), delta |-> 1],
    [pat |-> OneWord("αυριο"), delta |-> 1],
    [pat |-> OneWord("μεθαύριο"), delta |-> 2],
    [pat |-> OneWord("μεθαυριο"), delta |-> 2],
    [pat |-> OneWord("παραμεθαύριο"), delta |-> 3],
    [pat |-> OneWord("παραμεθαυριο"), delta |-> 3],
    [pat |-> TwoWords("next", "week"), delta |-> 7],
    [pat |-> TwoWords("επόμενη", "εβδομάδα"), delta |-> 7] >>

\* r'\b(?P<d>\d{1,2})[\/\-](?P<m>\d{1,2})(?:[\/\-](?P<y>\d{4}))?\b'
explicit_eu_date ==
    Sq(<<B, G(1, C("d", 1, 2)), C("slashdash", 1, 1), G(2, C("d", 1, 2)),
         Opt(Sq(<<C("slashdash", 1, 1), G(3, C("d", 4, 4))>>)), B>>)

-----------------------------------------------------------------------------
(* Time of day: _extract_time and its helpers                              *)

RECURSIVE FirstPartOfDay(_, _)
\* index of the first part_of_day entry whose word is in the text, or 0
FirstPartOfDay(t, k) ==
    IF k > Len(part_of_day) THEN 0
    ELSE IF Found(part_of_day[k].pat, t) THEN k
    ELSE FirstPartOfDay(t, k + 1)

\* the middle hour of the part of day k: <<>> is None
MiddleHour(k) ==
    IF k = 0 THEN <<>> ELSE <<(part_of_day[k].lo + part_of_day[k].hi) \div 2>>

\* _infer_part_of_day_hour: <<>> is None
InferPartOfDayHour(t) == MiddleHour(FirstPartOfDay(t, 1))

\* lines 562-576, k the part of day found
AdjustHour(k, hour_12) ==
    IF ~(1 <= hour_12 /\ hour_12 <= 12) \/ k = 0 THEN <<>>
    ELSE IF part_of_day[k].lo >= 12 /\ hour_12 < 12 THEN <<hour_12 + 12>>
    ELSE <<hour_12>>

\* _apply_part_of_day_heuristic: <<>> is None, <<h>> the adjusted hour
ApplyPartOfDayHeuristic(t, hour_12) == AdjustHour(FirstPartOfDay(t, 1), hour_12)

\* int(m.group(2)) if m.group(2) else 0
MinuteOf(t, m) == IF HasGroup(m, 2) THEN ParseInt(Group(t, m, 2)) ELSE 0

\* lines 509-514
HourAmPm(h, period) ==
    IF h = 12 /\ period = "am" THEN 0
    ELSE IF period = "pm" /\ h # 12 THEN h + 12 ELSE h

\* lines 506-515
TimeAmPm(t, m) ==
    clamp_time(HourAmPm(ParseInt(Group(t, m, 1)), Lower(Group(t, m, 3))),
               MinuteOf(t, m))

\* lines 522-530
HourGreek(h, token) ==
    IF Contains(token, "πμ") THEN (IF h = 12 THEN 0 ELSE h)
    ELSE IF Contains(token, "μμ") THEN (IF h # 12 THEN h + 12 ELSE h)
    ELSE h

\* lines 518-531
TimeGreek(t, m) ==
    clamp_time(HourGreek(ParseInt(Group(t, m, 1)), Lower(SubSeq(t, m.start, m.pos - 1))),
               MinuteOf(t, m))

\* lines 537-540 and 548-549: the adjusted hour when there is one
ClampAdjusted(h, pod_adj, minute) ==
    IF pod_adj # <<>> THEN clamp_time(pod_adj[1], minute) ELSE clamp_time(h, minute)

\* the hour h with its part-of-day adjustment
WithPartOfDay(t, h, minute) == ClampAdjusted(h, ApplyPartOfDayHeuristic(t, h), minute)

\* lines 534-540
TimeAtPrefix(t, m) == WithPartOfDay(t, ParseInt(Group(t, m, 1)), MinuteOf(t, m))

\* line 547: the word has an hour
WordyHasHour(t, m) == greek_word_to_hour(Group(t, m, 1)) # <<>>

\* lines 546-549, the word having an hour
TimeWordy(t, m) == WithPartOfDay(t, greek_word_to_hour(Group(t, m, 1))[1], 0)

\* lines 552-556
Time24h(t, m) == clamp_time(ParseInt(Group(t, m, 1)), ParseInt(Group(t, m, 2)))

\* lines 552-558
Try24h(t, m5) == IF m5 # <<>> THEN Time24h(t, m5[1]) ELSE <<>>

\* lines 543-558
TryWordy(t, m4) ==
    IF m4 # <<>> /\ WordyHasHour(t, m4[1]) THEN TimeWordy(t, m4[1])
    ELSE Try24h(t, Search(time_24h, t))

\* lines 534-558
TryAtPrefix(t, m3) ==
    IF m3 # <<>> THEN TimeAtPrefix(t, m3[1])
    ELSE TryWordy(t, Search(time_wordy, Lower(t)))

\* lines 518-558
TryGreek(t, m2) ==
    IF m2 # <<>> THEN TimeGreek(t, m2[1])
    ELSE TryAtPrefix(t, Search(time_at_prefix, Lower(t)))

\* lines 506-558
TryAmPm(t, m1) ==
    IF m1 # <<>> THEN TimeAmPm(t, m1[1])
    ELSE TryGreek(t, Search(time_12h_greek, Lower(t)))

\* _extract_time: <<>> is None, <<[hour, minute]>> a time.  The compiled
\* patterns carry re.IGNORECASE (time_24h has no letters).
ExtractTime(t) == TryAmPm(t, Search(time_12h_ampm, Lower(t)))

-----------------------------------------------------------------------------
(* Date and time: _extract_datetime_iso                                    *)

\* r'\b(?:from|από)\b(.*)$'
StartMarkerPattern ==
    Sq(<<B, Words(<<"from", "από">>), B, G(1, C("any", 0, -1)), End>>)

\* line 451: the text after the marker matched by m, <<>> without a match
AfterMarker(t, m) == IF m = <<>> THEN <<>> ELSE <<Group(t, m[1], 1)>>

\* lines 446-451: <<>> is the early return None, <<scope>> the text window
Scope(t, start_keywords) ==
    IF ~start_keywords THEN <<t>> ELSE AfterMarker(t, Search(StartMarkerPattern, t))

RECURSIVE FirstRelative(_, _)
\* lines 455-458: <<>> is None
FirstRelative(scope, k) ==
    IF k > Len(relatives) THEN <<>>
    ELSE IF Found(relatives[k].pat, scope) THEN <<relatives[k].delta>>
    ELSE FirstRelative(scope, k + 1)

\* lines 460-461; read: next_weekday_delta was called and read the clock
FromWeekday(d) == [value |-> d, read |-> d # <<>>]

\* lines 454-461, rel the offset of the relative phrase found
FromRelative(rel, scope, today_weekday) ==
    IF rel # <<>> THEN [value |-> rel, read |-> FALSE]
    ELSE FromWeekday(find_weekday_days_ahead(scope, today_weekday))

\* lines 454-461
DaysAhead(scope, today_weekday) ==
    FromRelative(FirstRelative(scope, 1), scope, today_weekday)

\* lines 473-476: <<>> is the ValueError caught
DateOf(nw, y, m, d) ==
    IF ValidDate(y, m, d) THEN <<[nw EXCEPT !.year = y, !.month = m, !.day = d]>>
    ELSE <<>>

\* lines 469-476, dm the match of the explicit date
ExplicitOf(scope, nw, dm) ==
    IF dm = <<>> THEN <<>>
    ELSE DateOf(nw,
                IF HasGroup(dm[1], 3) THEN ParseInt(Group(scope, dm[1], 3)) ELSE nw.year,
                ParseInt(Group(scope, dm[1], 2)),
                ParseInt(Group(scope, dm[1], 1)))

\* lines 468-476: <<>> is None (no match, or ValueError caught)
ExplicitDate(scope, nw) == ExplicitOf(scope, nw, Search(explicit_eu_date, scope))

\* lines 463-476
Dated(scope, nw, da) ==
    IF da # <<>> THEN <<AddDays(nw, da[1])>> ELSE ExplicitDate(scope, nw)

\* lines 480-481
OrToday(dated, nw, tm) ==
    IF dated = <<>> /\ tm # <<>> THEN <<nw>> ELSE dated

\* lines 463-481
BaseDate(scope, nw, da, tm) ==
    OrToday(Dated(scope, nw, da), nw, tm)

\* lines 492-493
WithHour(dt, pod_hour) ==
    IF pod_hour # <<>>
    THEN [dt EXCEPT !.hour = pod_hour[1], !.minute = 0, !.second = 0, !.microsecond = 0]
    ELSE dt

\* lines 487-493
ApplyTime(scope, dt, tm) ==
    IF tm # <<>>
    THEN [dt EXCEPT !.hour = tm[1].hour, !.minute = tm[1].minute,
                    !.second = 0, !.microsecond = 0]
    ELSE WithHour(dt, InferPartOfDayHour(scope))

\* line 495
Stamped(da, dt, tm) ==
    [days_ahead |-> da.value, read |-> da.read, base_dt |-> <<dt>>,
     extracted_time |-> tm, iso |-> <<IsoFormat(dt)>>]

\* lines 483-495
Resolved(scope, da, bd, tm) ==
    IF bd = <<>>
    THEN [days_ahead |-> da.value, read |-> da.read, base_dt |-> <<>>,
          extracted_time |-> tm, iso |-> <<>>]
    ELSE Stamped(da, ApplyTime(scope, bd[1], tm), tm)

\* lines 463-495
InScope(scope, nw, da, tm) ==
    Resolved(scope, da, BaseDate(scope, nw, da.value, tm), tm)

\* lines 450-495, sc the text window
FromScope(sc, nw, today_weekday) ==
    IF sc = <<>>
    THEN [days_ahead |-> <<>>, read |-> FALSE, base_dt |-> <<>>,
          extracted_time |-> <<>>, iso |-> <<>>]
    ELSE InScope(sc[1], nw, DaysAhead(sc[1], today_weekday), ExtractTime(sc[1]))

\* _extract_datetime_iso after line 443, nw the captured now and
\* today_weekday what next_weekday_delta reads from the clock
ExtractDatetime(t, start_keywords, nw, today_weekday) ==
    FromScope(Scope(t, start_keywords), nw, today_weekday)

-----------------------------------------------------------------------------
(* Title: _extract_title, _strip_dates_times                               *)

\* r'["“'‘]([^"”'’]+)["”'’]'
QuotedPattern ==
    Sq(<<C("quote", 1, 1), G(1, C("notquote", 1, -1)), C("quote", 1, 1)>>)

\* (?:\s+(?:for|in|...|$)|$)
StopTail == Alt(<<Sq(<<S1, Alt(<<Words(StopPrepositions), End>>)>>), End>>)

\* (.+?)
LazyText == G(1, CL("any", 1, -1))

title_patterns == <<
    Sq(<<L("with"), S1, L("title"), S1, LazyText, StopTail>>),
    Sq(<<L("title"), S1, L("is"), S1, LazyText, StopTail>>),
    Sq(<<L("title"), S0, L(":"), S0, LazyText, StopTail>>),
    Sq(<<L("with"), S1, L("title"), S1, LazyText, End>>),
    Sq(<<L("title"), S1, L("is"), S1, LazyText, End>>),
    Sq(<<B, L("title"), S1, LazyText, End>>),
    Sq(<<B, L("title"), S1, LazyText, StopTail>>) >>

\* re.sub(r'\s+', ' ', s).strip()
Collapse(s) == Strip(Sub(S1, " ", s))

RECURSIVE FirstTitlePhrase(_, _)
RECURSIVE TitleOrNext(_, _, _)
\* lines 353-360: <<>> when no pattern gives a title longer than 2
FirstTitlePhrase(t, k) ==
    IF k > Len(title_patterns) THEN <<>>
    ELSE TitleOrNext(t, k, Search(title_patterns[k], Lower(t)))

\* lines 355-360 for the match m of pattern k
TitleOrNext(t, k, m) ==
    IF m # <<>> /\ Len(Collapse(Strip(Group(t, m[1], 1)))) > 2
    THEN <<Collapse(Strip(Group(t, m[1], 1)))>>
    ELSE FirstTitlePhrase(t, k + 1)

RECURSIVE FlattenWords(_, _)
FlattenWords(tbl, i) ==
    IF i > Len(tbl) THEN <<>> ELSE tbl[i] \o FlattenWords(tbl, i + 1)

RelativeWords ==
    Sq(<<B, Alt(<<L("σήμερα"), L("αύριο"), L("αυριο"), L("μεθαύριο"), L("μεθαυριο"),
                  L("παραμεθαύριο"), L("παραμεθαυριο"), L("today"), L("tomorrow"),
                  Sq(<<L("next"), S1, L("week")>>),
                  Sq(<<L("επόμενη"), S1, L("εβδομάδα")>>)>>), B>>)

RECURSIVE StripPartsOfDay(_, _)
\* lines 396-397
StripPartsOfDay(s, k) ==
    IF k > Len(part_of_day) THEN s
    ELSE StripPartsOfDay(SubI(part_of_day[k].pat, " ", s), k + 1)

\* _strip_dates_times
StripDatesTimes(s) ==
    Collapse(
     SubI(Sq(<<B, Opt(Sq(<<L("η"), S1>>)), L("ώρα"), B>>), " ",
      SubI(RelativeWords, " ",
       SubI(time_wordy, " ",
        SubI(time_at_prefix, " ",
         SubI(time_12h_greek, " ",
          SubI(time_12h_ampm, " ",
           Sub(time_24h, " ",
            Sub(explicit_eu_date, " ",
             SubI(Sq(<<B, Words(FlattenWords(GREEK_WEEKDAYS, 1)), B>>), " ",
              StripPartsOfDay(s, 1)))))))))))

\* the stop words of lines 371-373
StopWords ==
    Sq(<<B, Words(<<"create", "add", "new", "make", "schedule", "task", "title",
                    "for", "in", "with", "about", "due", "at", "on", "from", "by",
                    "a", "an", "the", "δημιούργησε", "πρόσθεσε", "νέα", "κάνε",
                    "προγραμμάτισε", "φτιάξε", "εργασία", "για", "σε", "με",
                    "μέχρι", "στις", "στη", "στο", "έως", "ως", "από", "τίτλος",
                    "καταχώρισε">>), B>>)

\* a, then a space and b when b is not empty
SpaceJoin(a, b) == a \o (IF b = "" THEN "" ELSE " " \o b)

RECURSIVE FirstWords(_, _)
RECURSIVE WordsUpTo(_, _, _)
\* ' '.join(s.split()[:n]) for a collapsed, stripped s
FirstWords(s, n) == IF n = 0 THEN "" ELSE WordsUpTo(s, n, Search(S1, s))

\* m the first run of spaces of s
WordsUpTo(s, n, m) ==
    IF m = <<>> THEN s
    ELSE SpaceJoin(SubSeq(s, 1, m[1].start - 1),
                   FirstWords(SubSeq(s, m[1].pos, Len(s)), n - 1))

RECURSIVE FirstMeaningfulEntity(_, _)
\* lines 384-386
FirstMeaningfulEntity(ents, i) ==
    IF i > Len(ents) THEN <<>>
    ELSE IF ents[i].type \in {"work_order", "project", "client"} /\ Len(ents[i].value) > 2
    THEN <<ents[i].value>>
    ELSE FirstMeaningfulEntity(ents, i + 1)

DefaultTitle == "New Task"

\* ShortPhrase keeping a residual of two characters as well
ShortPhraseFromTwo(clean, ents) ==
    IF Len(clean) >= 2 /\ MatchAt(Sq(<<C("d", 1, -1), End>>), clean, 1) = <<>>
    THEN FirstWords(clean, 6)
    ELSE IF FirstMeaningfulEntity(ents, 1) # <<>> THEN FirstMeaningfulEntity(ents, 1)[1]
    ELSE DefaultTitle

\* lines 381-388, clean the normalised residual text
ShortPhrase(clean, ents) ==
    IF Len(clean) > 2 /\ MatchAt(Sq(<<C("d", 1, -1), End>>), clean, 1) = <<>>
    THEN FirstWords(clean, 6)
    ELSE IF FirstMeaningfulEntity(ents, 1) # <<>> THEN FirstMeaningfulEntity(ents, 1)[1]
    ELSE DefaultTitle

\* lines 367-388, clean being the text without the entity spans
TitleFromResidual(clean, ents) ==
    ShortPhrase(Collapse(SubI(StopWords, " ", StripDatesTimes(clean))), ents)

\* line 365 evaluates e.end(), a call of the int field end: TypeError as
\* soon as the loop of line 364 has an entity to visit
ExcisionRaises(ents) == ents # <<>>

\* lines 343-388
TitleAfterQuote(t, ents, phrase) ==
    IF phrase # <<>> THEN [raised |-> FALSE, value |-> phrase[1]]
    ELSE IF ExcisionRaises(ents) THEN [raised |-> TRUE, value |-> ""]
    ELSE [raised |-> FALSE, value |-> TitleFromResidual(t, ents)]

\* lines 338-388, q the match of the quoted string
TitleOf(t, ents, q) ==
    IF q # <<>> THEN [raised |-> FALSE, value |-> Strip(Group(t, q[1], 1))]
    ELSE TitleAfterQuote(t, ents, FirstTitlePhrase(t, 1))

\* _extract_title: raised is the TypeError of line 365
ExtractTitle(t, ents) == TitleOf(t, ents, Search(QuotedPattern, t))

-----------------------------------------------------------------------------
(* Inputs                                                                  *)

\* longest input of the pipeline specification, in phrases
MaxPhrases == 3
\* longest input of the priority specification, in phrases
MaxPriorityPhrases == 2
\* longest entity list of the confidence specification
MaxEntities == 4
\* how often the clock may advance during one call
MaxTicks == 1

JoinWords(a, b) == IF a = "" THEN b ELSE a \o " " \o b

\* the texts of S, and those with one more phrase of P
Extend(S, P) == S \cup { JoinWords(a, b) : a \in S, b \in P }

RECURSIVE Texts(_, _)
\* the texts made of at most n phrases of P, separated by single spaces
Texts(P, n) == IF n = 0 THEN {""} ELSE Extend(Texts(P, n - 1), P)

\* commands and task payloads
IntentPhrases == { "create a task", "task={64b1f9a2e1234567890abcde}", "task={xyz}",
                   "alter" }

\* structured forms, symbol references and quotes
MarkupPhrases == { "foo={", "task={xyz}", "@John", "' '" }

\* dates and times
DatePhrases == { "tomorrow", "αύριο", "δευτέρα", "from", "3pm", "31-04-2025" }

\* the inputs of test.py
test_cases == { "create a task in #Garden Care for tomorrow",
                "add urgent task for @John Doe",
                "schedule task 'Plant watering' due friday",
                "new task for +Maintenance Project 2 hours",
                "create task &Acme Corp inspection" }

\* the inputs of the /test endpoint of server.py
examples == { "create a task in #Garden Care for tomorrow",
              "add task 'Plant watering' for @John Doe urgent priority",
              "schedule task for +Maintenance Project due friday",
              "new task &Acme Corp inspection 2 hours" }

\* the inputs of test_advanced.py
time_test_cases == { "create a task in #Garden Care for tomorrow at 3pm",
                     "schedule meeting at 9:30am tomorrow",
                     "add task due friday at 2:15pm",
                     "create inspection task at 14:30",
                     "schedule maintenance for monday at 8am" }

\* further commands: weekday with time, no cue at all, empty payload
Commands == { "schedule task for +Maintenance Project due friday at 3pm",
              "due friday at 3pm", "hello there", "task={ }", "client={ Acme }" }

Inputs ==
    Texts(IntentPhrases, MaxPhrases) \cup Texts(MarkupPhrases, MaxPhrases)
    \cup Texts(DatePhrases, MaxPhrases) \cup test_cases \cup examples
    \cup time_test_cases \cup Commands

\* longest input of the specification of plain texts, in words
MaxPlainWords == 3

\* words that are no cue of any extractor
PlainWords == { "hello", "there", "ok", "123", "the" }

\* texts without any cue; the last has more than six words
PlainInputs ==
    Texts(PlainWords, MaxPlainWords)
    \cup { "Hello There", "alpha beta gamma delta kappa sigma omega" }

\* longest input of time notations, in phrases
MaxTimePhrases == 2

\* a time phrase, the rank of its notation in _extract_time (1 am/pm,
\* 2 πμ/μμ, 3 at-prefix, 4 spelled hour, 5 HH:MM) and the time it states,
\* <<>> when its hour or minute is out of range
TimePhrases == {
    [phrase |-> "3pm",         notation |-> 1, time |-> <<[hour |-> 15, minute |-> 0]>>],
    [phrase |-> "13pm",        notation |-> 1, time |-> <<>>],
    [phrase |-> "11:75am",     notation |-> 1, time |-> <<>>],
    [phrase |-> "5μμ",         notation |-> 2, time |-> <<[hour |-> 17, minute |-> 0]>>],
    [phrase |-> "15μμ",        notation |-> 2, time |-> <<>>],
    [phrase |-> "στις 9",      notation |-> 3, time |-> <<[hour |-> 9, minute |-> 0]>>],
    [phrase |-> "στις 25",     notation |-> 3, time |-> <<>>],
    [phrase |-> "τρεις η ώρα", notation |-> 4, time |-> <<[hour |-> 3, minute |-> 0]>>],
    [phrase |-> "14:30",       notation |-> 5, time |-> <<[hour |-> 14, minute |-> 30]>>],
    [phrase |-> "25:10",       notation |-> 5, time |-> <<>>] }

Numerals == <<"1", "2", "3", "4", "5", "6", "7", "8", "9", "10", "11", "12">>

SpelledHours == <<"μία", "δύο", "τρεις", "τέσσερα", "πέντε", "έξι", "επτά", "οκτώ",
                  "εννιά", "δέκα", "έντεκα", "δώδεκα">>

\* the at-prefix and spelled forms of the hour h
HourForms(h) ==
    { "στις " \o Numerals[h], "στη " \o Numerals[h], "στο " \o Numerals[h],
      SpelledHours[h] \o " η ώρα", SpelledHours[h] \o " ώρα" }

\* the part-of-day words
PartOfDayWords == { "ξημερώματα", "πρωί", "πρωι", "μεσημέρι", "απόγευμα", "βράδυ" }

\* an hour form, alone and followed by a part-of-day word
HourInputs ==
    UNION { HourForms(h) \cup { f \o " " \o w : f \in HourForms(h), w \in PartOfDayWords } :
            h \in 1..12 }

TimeInputs ==
    HourInputs \cup Texts({ p.phrase : p \in TimePhrases }, MaxTimePhrases)

\* longest input of the intent specification, in words
MaxIntentWords == 2

\* the word task, the contextual prepositions, and words that contain them
HeuristicWords == { "task", "for", "in", "with", "about", "inspection",
                    "information", "multitask", "report" }

IntentInputs == Texts(HeuristicWords, MaxIntentWords)

PriorityPhrases == { "URGENT", "high priority", "important", "normal", "low",
                     "when possible", "Hello", "κρίσιμο", "υψηλή", "χαμηλή προτεραιότητα" }

PriorityInputs == Texts(PriorityPhrases, MaxPriorityPhrases)

ConfidenceInputs == { "", "hello there", "task", "a new task", "make it", "address book",
                      "εργασία", "update task", "multitask", "προγραμμάτισε εργασία" }

Intents == {"create_task", "update_task", "unknown"}

\* n entities as _extract_entities returns them
SomeEntities(n) ==
    [i \in 1..n |-> [type |-> "personnel", value |-> "John", symbol |-> "@",
                     start |-> 6 * (i - 1), end |-> 6 * (i - 1) + 5]]

WeekdayPrefixes == {"", "την άλλη ", "επόμενη ", "για "}

WeekdayInputs ==
    { pre \o GREEK_WEEKDAYS[i][v] :
        pre \in WeekdayPrefixes, i \in 1..Len(GREEK_WEEKDAYS), v \in 1..2 }
    \cup {"", "friday"}

DateTime(y, mo, d, h, mi, sec, us) ==
    [year |-> y, month |-> mo, day |-> d, hour |-> h, minute |-> mi,
     second |-> sec, microsecond |-> us]

\* a Sunday just before midnight, a Wednesday evening, the last morning of April
Clocks == { DateTime(2026, 11, 8, 23, 59, 30, 500000),
            DateTime(2026, 11, 4, 19, 54, 5, 298081),
            DateTime(2026, 4, 30, 9, 15, 0, 0) }

\* one instant on each day of a week
WeekClocks == { DateTime(2026, 11, d, 12, 0, 0, 0) : d \in 2..8 }

\* dt at the second secs of its day, secs below two days
AtSecond(dt, secs) ==
    [dt EXCEPT !.hour = (secs % 86400) \div 3600,
               !.minute = (secs % 3600) \div 60,
               !.second = secs % 60]

\* dt moved to the second secs of its day, into the next day from 86400 on
Carry(dt, secs) ==
    IF secs >= 86400 THEN NextDay(AtSecond(dt, secs)) ELSE AtSecond(dt, secs)

\* the clock 45 seconds later
Advance(dt) == Carry(dt, dt.hour * 3600 + dt.minute * 60 + dt.second + 45)

-----------------------------------------------------------------------------
(* process()                                                               *)

PcOrder == <<"start", "intent", "entities", "title", "priority", "due_now",
             "due_resolve", "start_now", "start_resolve", "confidence", "done">>

PcIndex(p) == CHOOSE i \in 1..Len(PcOrder) : PcOrder[i] = p

\* the call has not raised and has completed the step that leaves pc at p
Past(p) == pc # "raised" /\ pc \in { PcOrder[i] : i \in (PcIndex(p) + 1)..Len(PcOrder) }

Unset ==
    /\ ticks = 0
    /\ text_lower = ""
    /\ intent = ""
    /\ entities = <<>>
    /\ title = ""
    /\ priority = ""
    /\ now = <<>>
    /\ today = <<>>
    /\ days_ahead = <<>>
    /\ base_dt = <<>>
    /\ extracted_time = <<>>
    /\ due_date = <<>>
    /\ start_date = <<>>
    /\ confidence = 0

Init ==
    /\ request = <<>>
    /\ status = 0
    /\ text \in Inputs
    /\ clock \in Clocks
    /\ pc = "start"
    /\ Unset

\* line 212
Begin ==
    /\ pc = "start"
    /\ text_lower' = Strip(Lower(text))
    /\ pc' = "intent"
    /\ UNCHANGED <<request, status, extracted_time, text, clock, ticks, intent, entities, title, priority, now, today,
                   days_ahead, base_dt, due_date, start_date, confidence>>

\* line 214
DetectIntentStep ==
    /\ pc = "intent"
    /\ intent' = DetectIntent(text_lower)
    /\ pc' = "entities"
    /\ UNCHANGED <<request, status, extracted_time, text, clock, ticks, text_lower, entities, title, priority, now,
                   today, days_ahead, base_dt, due_date, start_date, confidence>>

\* line 215
ExtractEntitiesStep ==
    /\ pc = "entities"
    /\ entities' = ExtractEntities(text)
    /\ pc' = "title"
    /\ UNCHANGED <<request, status, extracted_time, text, clock, ticks, text_lower, intent, title, priority, now,
                   today, days_ahead, base_dt, due_date, start_date, confidence>>

\* the result r of _extract_title reaches process()
TitleReturned(r) ==
    /\ title' = r.value
    /\ pc' = IF r.raised THEN "raised" ELSE "priority"

\* line 216; the TypeError of line 365 leaves process()
ExtractTitleStep ==
    /\ pc = "title"
    /\ TitleReturned(ExtractTitle(text, entities))
    /\ UNCHANGED <<request, status, extracted_time, text, clock, ticks, text_lower, intent, entities, priority, now,
                   today, days_ahead, base_dt, due_date, start_date, confidence>>

\* line 219
ExtractPriorityStep ==
    /\ pc = "priority"
    /\ priority' = ExtractPriority(text_lower)
    /\ pc' = "due_now"
    /\ UNCHANGED <<request, status, extracted_time, text, clock, ticks, text_lower, intent, entities, title, now,
                   today, days_ahead, base_dt, due_date, start_date, confidence>>

\* line 443 of a call of _extract_datetime_iso: now = LOCAL_NOW()
ReadNow(from, to) ==
    /\ pc = from
    /\ now' = <<clock>>
    /\ today' = <<>>
    /\ days_ahead' = <<>>
    /\ base_dt' = <<>>
    /\ extracted_time' = <<>>
    /\ pc' = to
    /\ UNCHANGED <<request, status, text, clock, ticks, text_lower, intent, entities, title, priority,
                   due_date, start_date, confidence>>

\* the result r of lines 445-495 reaches process()
DateReturned(start_keywords, r) ==
    /\ today' = IF r.read THEN <<Weekday(clock)>> ELSE today
    /\ days_ahead' = r.days_ahead
    /\ base_dt' = r.base_dt
    /\ extracted_time' = r.extracted_time
    /\ IF start_keywords
       THEN start_date' = r.iso /\ UNCHANGED due_date
       ELSE due_date' = r.iso /\ UNCHANGED start_date

\* lines 445-495 of a call of _extract_datetime_iso; next_weekday_delta, when
\* called, reads the clock again (line 85)
Resolve(start_keywords) ==
    DateReturned(start_keywords,
                 ExtractDatetime(text_lower, start_keywords, now[1], Weekday(clock)))

\* line 226
DueNow == ReadNow("due_now", "due_resolve")

DueResolve ==
    /\ pc = "due_resolve"
    /\ Resolve(FALSE)
    /\ pc' = "start_now"
    /\ UNCHANGED <<request, status, text, clock, ticks, text_lower, intent, entities, title, priority,
                   now, confidence>>

\* line 228
StartNow == ReadNow("start_now", "start_resolve")

StartResolve ==
    /\ pc = "start_resolve"
    /\ Resolve(TRUE)
    /\ pc' = "confidence"
    /\ UNCHANGED <<request, status, text, clock, ticks, text_lower, intent, entities, title, priority,
                   now, confidence>>

\* line 232
ConfidenceStep ==
    /\ pc = "confidence"
    /\ confidence' = CalculateConfidence(text_lower, intent, entities)
    /\ pc' = "done"
    /\ UNCHANGED <<request, status, extracted_time, text, clock, ticks, text_lower, intent, entities, title, priority,
                   now, today, days_ahead, base_dt, due_date, start_date>>

\* The wall clock advances while the date resolution runs.  An advance
\* before the first read of the clock is an initial clock value.
Tick ==
    /\ pc \in {"due_resolve", "start_now", "start_resolve"}
    /\ ticks < MaxTicks
    /\ clock' = Advance(clock)
    /\ ticks' = ticks + 1
    /\ UNCHANGED <<request, status, extracted_time, text, pc, text_lower, intent, entities, title, priority, now, today,
                   days_ahead, base_dt, due_date, start_date, confidence>>

Next ==
    \/ Begin
    \/ DetectIntentStep
    \/ ExtractEntitiesStep
    \/ ExtractTitleStep
    \/ ExtractPriorityStep
    \/ DueNow
    \/ DueResolve
    \/ StartNow
    \/ StartResolve
    \/ ConfidenceStep
    \/ Tick

Spec == Init /\ [][Next]_vars

-----------------------------------------------------------------------------
(* The transport boundary: process_text of server.py                       *)

\* status_code of the HTTPException of lines 106 and 109
BadRequest == 400
\* status_code of the HTTPException of line 142
ProcessingError == 500
\* status of a response that process_text returns
Ok == 200

\* an Optional[str] field of ProcessRequest: <<>> is None
FieldValues == { <<>>, <<"">>, <<" ">>, <<"hello there">>, <<"@John">> }

ProcessRequest == [text : FieldValues, originalTxt : FieldValues, parsedTxt : FieldValues]

\* the truth value Python gives an Optional[str]: None and "" are false
Truthy(field) == field # <<>> /\ field[1] # ""

\* lines 91-106: <<s>> is text_to_process, <<>> the HTTPException of line 106
TextToProcess(req) ==
    IF Truthy(req.originalTxt) /\ Truthy(req.parsedTxt) THEN req.parsedTxt
    ELSE IF Truthy(req.text) THEN req.text
    ELSE <<>>

\* lines 91-109: the status_code of the exception raised, 0 when none is
Raised(selected) ==
    IF selected = <<>> THEN BadRequest
    ELSE IF Strip(selected[1]) = "" THEN BadRequest
    ELSE 0

\* lines 141-142: `except Exception` catches every exception raised inside
\* the try block, the HTTPException of lines 106 and 109 included
\* (HTTPException is a subclass of Exception), and raises the
\* HTTPException of line 142 in its place
ExceptException(status_code) == ProcessingError

\* lines 89-112 for the text selected: an exception ends the request, a
\* text is handed to processor.process
Selected(selected) ==
    IF Raised(selected) # 0
    THEN /\ status' = ExceptException(Raised(selected))
         /\ pc' = "responded"
         /\ UNCHANGED text
    ELSE /\ text' = selected[1]
         /\ pc' = "start"
         /\ UNCHANGED status

\* lines 89-112
SelectText ==
    /\ pc = "request"
    /\ Selected(TextToProcess(request[1]))
    /\ UNCHANGED <<request, clock, ticks, text_lower, intent, entities, title,
                   priority, now, today, days_ahead, base_dt, extracted_time,
                   due_date, start_date, confidence>>

\* lines 114-139: process() has returned
Respond ==
    /\ pc = "done"
    /\ request # <<>>
    /\ status' = Ok
    /\ pc' = "responded"
    /\ UNCHANGED <<request, extracted_time, text, clock, ticks, text_lower, intent,
                   entities, title, priority, now, today, days_ahead, base_dt,
                   due_date, start_date, confidence>>

\* lines 141-142: process() has raised
Fail ==
    /\ pc = "raised"
    /\ request # <<>>
    /\ status' = ExceptException(0)
    /\ pc' = "responded"
    /\ UNCHANGED <<request, extracted_time, text, clock, ticks, text_lower, intent,
                   entities, title, priority, now, today, days_ahead, base_dt,
                   due_date, start_date, confidence>>

InitServer ==
    /\ request \in { <<r>> : r \in ProcessRequest }
    /\ status = 0
    /\ text = ""
    /\ clock = DateTime(2026, 11, 4, 12, 0, 0, 0)
    /\ pc = "request"
    /\ Unset

NextServer ==
    \/ SelectText
    \/ Respond
    \/ Fail
    \/ Next

SpecServer == InitServer /\ [][NextServer]_vars

-----------------------------------------------------------------------------
(* The extractors on their own                                             *)

\* _extract_priority(text_lower) for the inputs PriorityInputs
InitPriority ==
    /\ request = <<>>
    /\ status = 0
    /\ text \in PriorityInputs
    /\ pc = "priority"
    /\ clock = DateTime(2026, 11, 4, 12, 0, 0, 0)
    /\ ticks = 0
    /\ text_lower = Strip(Lower(text))
    /\ intent = ""
    /\ entities = <<>>
    /\ title = ""
    /\ priority = ""
    /\ now = <<>>
    /\ today = <<>>
    /\ days_ahead = <<>>
    /\ base_dt = <<>>
    /\ extracted_time = <<>>
    /\ due_date = <<>>
    /\ start_date = <<>>
    /\ confidence = 0

NextPriority == ExtractPriorityStep

SpecPriority == InitPriority /\ [][NextPriority]_vars

\* _calculate_confidence(text_lower, intent, entities) for the inputs
\* ConfidenceInputs, every intent and up to MaxEntities entities
InitConfidence ==
    /\ request = <<>>
    /\ status = 0
    /\ text \in ConfidenceInputs
    /\ pc = "confidence"
    /\ clock = DateTime(2026, 11, 4, 12, 0, 0, 0)
    /\ ticks = 0
    /\ text_lower = text
    /\ intent \in Intents
    /\ entities \in { SomeEntities(n) : n \in 0..MaxEntities }
    /\ title = ""
    /\ priority = ""
    /\ now = <<>>
    /\ today = <<>>
    /\ days_ahead = <<>>
    /\ base_dt = <<>>
    /\ extracted_time = <<>>
    /\ due_date = <<>>
    /\ start_date = <<>>
    /\ confidence = 0

NextConfidence == ConfidenceStep

SpecConfidence == InitConfidence /\ [][NextConfidence]_vars

\* find_weekday_days_ahead(text_lower) for the inputs WeekdayInputs, on each
\* day of a week
InitWeekday ==
    /\ request = <<>>
    /\ status = 0
    /\ text \in WeekdayInputs
    /\ pc = "weekday"
    /\ clock \in WeekClocks
    /\ ticks = 0
    /\ text_lower = text
    /\ intent = ""
    /\ entities = <<>>
    /\ title = ""
    /\ priority = ""
    /\ now = <<>>
    /\ today = <<>>
    /\ days_ahead = <<>>
    /\ base_dt = <<>>
    /\ extracted_time = <<>>
    /\ due_date = <<>>
    /\ start_date = <<>>
    /\ confidence = 0

\* a call of find_weekday_days_ahead; next_weekday_delta, when called, reads
\* the clock (line 85)
FindWeekdayStep ==
    /\ pc = "weekday"
    /\ today' = IF FirstWeekday(text_lower) # <<>> THEN <<Weekday(clock)>> ELSE today
    /\ days_ahead' = find_weekday_days_ahead(text_lower, Weekday(clock))
    /\ pc' = "done"
    /\ UNCHANGED <<request, status, extracted_time, text, clock, ticks, text_lower, intent, entities, title, priority,
                   now, base_dt, due_date, start_date, confidence>>

NextWeekday == FindWeekdayStep

SpecWeekday == InitWeekday /\ [][NextWeekday]_vars

\* _detect_intent(text_lower) for the inputs IntentInputs
InitIntent ==
    /\ request = <<>>
    /\ status = 0
    /\ text \in IntentInputs
    /\ clock = DateTime(2026, 11, 4, 12, 0, 0, 0)
    /\ pc = "intent"
    /\ ticks = 0
    /\ text_lower = text
    /\ intent = ""
    /\ entities = <<>>
    /\ title = ""
    /\ priority = ""
    /\ now = <<>>
    /\ today = <<>>
    /\ days_ahead = <<>>
    /\ base_dt = <<>>
    /\ extracted_time = <<>>
    /\ due_date = <<>>
    /\ start_date = <<>>
    /\ confidence = 0

NextIntent == DetectIntentStep

SpecIntent == InitIntent /\ [][NextIntent]_vars

\* _extract_time(text_lower) for the inputs TimeInputs
InitTime ==
    /\ request = <<>>
    /\ status = 0
    /\ text \in TimeInputs
    /\ pc = "time"
    /\ clock = DateTime(2026, 11, 4, 12, 0, 0, 0)
    /\ ticks = 0
    /\ text_lower = text
    /\ intent = ""
    /\ entities = <<>>
    /\ title = ""
    /\ priority = ""
    /\ now = <<>>
    /\ today = <<>>
    /\ days_ahead = <<>>
    /\ base_dt = <<>>
    /\ extracted_time = <<>>
    /\ due_date = <<>>
    /\ start_date = <<>>
    /\ confidence = 0

\* a call of _extract_time
ExtractTimeStep ==
    /\ pc = "time"
    /\ extracted_time' = ExtractTime(text_lower)
    /\ pc' = "done"
    /\ UNCHANGED <<request, status, text, clock, ticks, text_lower, intent, entities,
                   title, priority, now, today, days_ahead, base_dt, due_date,
                   start_date, confidence>>

NextTime == ExtractTimeStep

SpecTime == InitTime /\ [][NextTime]_vars

\* process(text) for the inputs PlainInputs
InitPlain ==
    /\ request = <<>>
    /\ status = 0
    /\ text \in PlainInputs
    /\ clock = DateTime(2026, 11, 4, 12, 0, 0, 0)
    /\ pc = "start"
    /\ Unset

SpecPlain == InitPlain /\ [][Next]_vars

-----------------------------------------------------------------------------
(* Properties                                                              *)

\* the text w occurs in t at position i
OccursAt(t, w, i) == i + Len(w) - 1 <= Len(t) /\ SubSeq(t, i, i + Len(w) - 1) = w

\* the text w occurs in t
Occurs(t, w) == \E i \in 1..Len(t) : OccursAt(t, w, i)

\* w occurs in t as a word: with no word character next to it
HasWord(t, w) ==
    \E i \in 1..Len(t) :
       /\ OccursAt(t, w, i)
       /\ (i = 1 \/ ~IsWord(Ch(t, i - 1)))
       /\ (i + Len(w) > Len(t) \/ ~IsWord(Ch(t, i + Len(w))))

\* process() has called _extract_entities
EntitiesKnown == pc \notin {"start", "intent", "entities"}

\* C1: the title process() returns is never the empty string, whichever rule
\* of the precedence chain produces it.
C1_TitleNonEmpty == Past("title") => title # ""

\* task={id} with an id of exactly 24 hexadecimal characters, at position i
HexTaskPayloadAt(t, i) ==
    /\ OccursAt(t, "task={", i)
    /\ i + 30 <= Len(t)
    /\ \A j \in (i + 6)..(i + 29) : Ch(t, j) \in ClassSets["hex"]
    /\ Ch(t, i + 30) = "}"

UpdateVerbs == {"change", "edit", "modify", "update", "alter", "ενημέρωσε", "άλλαξε",
                "τροποποίησε"}

\* C2: a text with a payload task={24 hexadecimal characters} anywhere and an
\* update verb as a word has the intent update_task, whatever else it holds.
C2_HexTaskUpdate ==
    ( /\ Past("intent")
      /\ \E i \in 1..Len(text_lower) : HexTaskPayloadAt(text_lower, i)
      /\ \E v \in UpdateVerbs : HasWord(text_lower, v) )
    => intent = "update_task"

\* the prefixes of WeekdayInputs that hold the next/other modifier
ModifierPrefixes == {"την άλλη ", "επόμενη "}

\* the offset d leads from the weekday of the clock to the weekday target,
\* is in 1..7, and is 7 when the two weekdays are the same
OffsetToNext(d, target) ==
    /\ d \in 1..7
    /\ (target = Weekday(clock) => d = 7)
    /\ Weekday(AddDays(clock, d)) = target

\* C3: a weekday name resolves to an offset in 1..7, 7 and never 0 when it
\* names the current weekday, and to that offset plus 7 with the modifier.
C3_WeekdayOffset ==
    pc = "done" =>
      \A pre \in WeekdayPrefixes, i \in 1..Len(GREEK_WEEKDAYS), v \in 1..2 :
         text_lower = pre \o GREEK_WEEKDAYS[i][v] =>
           /\ days_ahead # <<>>
           /\ OffsetToNext(days_ahead[1] - (IF pre \in ModifierPrefixes THEN 7 ELSE 0),
                           i - 1)

\* C3: Monday is resolved on a Monday, and the offset is 7
C3_Witness ==
    /\ pc = "done"
    /\ text_lower = "δευτέρα"
    /\ Weekday(clock) = 0
    /\ days_ahead = <<7>>

SpansDisjoint(ents) ==
    \A i, j \in 1..Len(ents) :
       i # j => (ents[i].end <= ents[j].start \/ ents[j].end <= ents[i].start)

SpansInBounds(ents, t) ==
    \A i \in 1..Len(ents) :
       0 <= ents[i].start /\ ents[i].start <= ents[i].end /\ ents[i].end <= Len(t)

\* C4: the entity spans are pairwise disjoint and inside the text, and
\* removing them from the text in the title resolver never raises.
C4_SpansExcised ==
    /\ EntitiesKnown => SpansDisjoint(entities) /\ SpansInBounds(entities, text)
    /\ pc # "raised"

Indicator(b) == IF b THEN 1 ELSE 0

TaskWords == {"task", "εργασία"}

ActionVerbs == {"create", "add", "make", "schedule", "update", "modify", "δημιούργησε",
                "πρόσθεσε", "φτιάξε", "προγραμμάτισε", "ενημέρωσε"}

\* C5: confidence is in [0, 1] and is min(1, 0.45 [intent known]
\* + min(0.35, 0.12 n) + 0.12 [task word] + 0.08 [action verb]) for n entities,
\* in hundredths here; one entity more never lowers it.
C5_Confidence ==
    pc = "done" =>
      /\ confidence \in 0..100
      /\ confidence =
           Min(100, 45 * Indicator(intent # "unknown")
                    + Min(35, 12 * Len(entities))
                    + 12 * Indicator(\E w \in TaskWords : HasWord(text_lower, w))
                    + 8 * Indicator(\E v \in ActionVerbs : Occurs(text_lower, v)))
      /\ CalculateConfidence(text_lower, intent, SomeEntities(Len(entities) + 1))
           >= confidence

\* C5: with an intent, a task word, a verb and four entities the entity term
\* is capped and the confidence is 1
C5_Witness ==
    /\ pc = "done"
    /\ text_lower = "update task"
    /\ intent = "update_task"
    /\ Len(entities) = 4
    /\ confidence = 100

Urgency == [low |-> 1, medium |-> 2, high |-> 3, urgent |-> 4]

\* the levels a phrase of which is in the text
MatchingLevels(t) ==
    { l \in DOMAIN priority_patterns : AnyFound(priority_patterns[l], t) }

\* l is the most urgent level of the set ls
MostUrgent(l, ls) == l \in ls /\ \A k \in ls : Urgency[k] <= Urgency[l]

\* C6: the priority is one of the four levels: the most urgent level a phrase
\* of which is in the text, and medium when there is none.
C6_Priority ==
    pc = "due_now" =>
      /\ priority \in {"low", "medium", "high", "urgent"}
      /\ IF MatchingLevels(text_lower) = {} THEN priority = "medium"
         ELSE MostUrgent(priority, MatchingLevels(text_lower))

\* C6: a low phrase before an urgent phrase gives urgent
C6_Witness ==
    /\ pc = "due_now"
    /\ text_lower = "low urgent"
    /\ priority = "urgent"

\* the inputs whose only date is the invalid date 31-04-2025
InvalidDateOnly(t) ==
    /\ HasWord(t, "31-04-2025")
    /\ \A w \in {"tomorrow", "αύριο", "δευτέρα"} : ~HasWord(t, w)

\* dt at the time of day h:00:00
AtHour(dt, h) == [dt EXCEPT !.hour = h, !.minute = 0, !.second = 0, !.microsecond = 0]

\* C7: process() never raises; an explicit date that is not a calendar date
\* counts as no date: due_date is absent, or today at the stated time.
C7_Total ==
    /\ pc # "raised"
    /\ (pc = "start_now" /\ InvalidDateOnly(text_lower)) =>
         due_date = IF HasWord(text_lower, "3pm")
                    THEN <<IsoFormat(AtHour(now[1], 15))>> ELSE <<>>

\* kind={payload} at position i of t, the payload not empty and closed by }
StructuredAt(t, kind, i) ==
    /\ OccursAt(t, kind \o "={", i)
    /\ (i = 1 \/ ~IsWord(Ch(t, i - 1)))
    /\ i + Len(kind) + 2 <= Len(t)
    /\ Ch(t, i + Len(kind) + 2) # "}"
    /\ \E j \in (i + Len(kind) + 3)..Len(t) : Ch(t, j) = "}"

HasStructured(t) ==
    \E kind \in valid_types : \E i \in 1..Len(t) : StructuredAt(t, kind, i)

\* C8: with a structured form of a valid kind in the text every entity has
\* the marker =; without one the symbol references are the entities.
C8_StructuredExclusive ==
    EntitiesKnown =>
      IF HasStructured(text)
      THEN \A i \in 1..Len(entities) : entities[i].symbol = "="
      ELSE entities = SymbolEntities(text, 1)

\* C9: the weekday the offset is computed from is the weekday of the instant
\* captured as now: the clock is read once for a date resolution.
C9_ClockReadOnce ==
    (today # <<>> /\ now # <<>>) => today[1] = Weekday(now[1])

\* C10: tomorrow, like αύριο, without a time notation gives as due_date the
\* day after now at now's time of day.
C10_Tomorrow ==
    ( /\ pc = "start_now"
      /\ ~HasWord(text_lower, "3pm")
      /\ HasWord(text_lower, "tomorrow") \/ HasWord(text_lower, "αύριο") )
    => due_date = <<IsoFormat(AddDays(now[1], 1))>>

\* the English weekday names, Monday first as datetime.weekday() counts
EnglishWeekdays == <<"monday", "tuesday", "wednesday", "thursday", "friday",
                     "saturday", "sunday">>

\* days from the weekday from to the next weekday to strictly after it
DaysToNext(from, to) == ((to - from + 6) % 7) + 1

\* a 12-hour time of the inputs and its hour and minute
StatedTimes == { [word |-> "3pm", hour |-> 15, minute |-> 0],
                 [word |-> "2:15pm", hour |-> 14, minute |-> 15],
                 [word |-> "8am", hour |-> 8, minute |-> 0] }

AtTime(dt, h, mi) ==
    [dt EXCEPT !.hour = h, !.minute = mi, !.second = 0, !.microsecond = 0]

\* C11: an English weekday name with a 12-hour time gives as due_date the
\* next occurrence of that weekday strictly after today, at the stated time.
C11_EnglishWeekday ==
    pc = "start_now" =>
      \A i \in 1..Len(EnglishWeekdays), tm \in StatedTimes :
         (HasWord(text_lower, EnglishWeekdays[i]) /\ HasWord(text_lower, tm.word)) =>
            due_date = <<IsoFormat(AtTime(AddDays(now[1],
                                                  DaysToNext(Weekday(now[1]), i - 1)),
                                          tm.hour, tm.minute))>>

\* C12: add task 'Plant watering' for @John Doe urgent priority has the
\* title Plant watering, the priority urgent and the one entity @John Doe:
\* the name does not absorb the words that follow it.
C12_NameStops ==
    (Past("priority") /\ text = "add task 'Plant watering' for @John Doe urgent priority")
    => /\ title = "Plant watering"
       /\ priority = "urgent"
       /\ Len(entities) = 1
       /\ entities[1].type = "personnel"
       /\ entities[1].symbol = "@"
       /\ entities[1].value = "John Doe"

\* t has only digits
AllDigits(t) == \A i \in 1..Len(t) : Ch(t, i) \in Digits

\* the positions of t that hold a space
SpacesOf(t) == { i \in 1..Len(t) : Ch(t, i) = " " }

\* the first six words of a text of single-spaced words
SixWords(t) ==
    IF Cardinality(SpacesOf(t)) < 6 THEN t
    ELSE SubSeq(t, 1, (CHOOSE i \in SpacesOf(t) :
                         Cardinality({ j \in SpacesOf(t) : j < i }) = 5) - 1)

\* C13 as stated: without any cue, as in hello there, the intent is unknown,
\* the title is the literal default and confidence is at most 0.12.
C13_NoCuesDefault ==
    (pc = "done" /\ text \in PlainInputs)
    => /\ intent = "unknown"
       /\ title = "New Task"
       /\ confidence <= 12

\* the command words the title resolver drops
CommandWords ==
    { "create", "add", "new", "make", "schedule", "task", "title", "for", "in",
      "with", "about", "due", "at", "on", "from", "by", "a", "an", "the",
      "δημιούργησε", "πρόσθεσε", "νέα", "κάνε", "προγραμμάτισε", "φτιάξε",
      "εργασία", "για", "σε", "με", "μέχρι", "στις", "στη", "στο", "έως", "ως",
      "από", "τίτλος", "καταχώρισε" }

\* the end of the first word of t
WordEnd(t) == IF SpacesOf(t) = {} THEN Len(t) ELSE SetMin(SpacesOf(t)) - 1

\* w, and rest after a space when rest is not empty
Before(w, rest) == IF rest = "" THEN w ELSE w \o " " \o rest

RECURSIVE WithoutCommandWords(_)
\* a text of single-spaced words without its command words
WithoutCommandWords(t) ==
    IF t = "" THEN ""
    ELSE IF Lower(SubSeq(t, 1, WordEnd(t))) \in CommandWords
    THEN WithoutCommandWords(SubSeq(t, WordEnd(t) + 2, Len(t)))
    ELSE Before(SubSeq(t, 1, WordEnd(t)),
                WithoutCommandWords(SubSeq(t, WordEnd(t) + 2, Len(t))))

\* the title of a residual text r
ResidualTitle(r) ==
    IF Len(r) > 2 /\ ~AllDigits(r) THEN SixWords(r) ELSE "New Task"

\* C13 amended: without any cue the intent is unknown, confidence is at most
\* 0.12, and the title is the first six words of the text without its
\* command words; it is the literal default only when at most two
\* characters or only digits remain.
C13_NoCues ==
    (pc = "done" /\ text \in PlainInputs)
    => /\ intent = "unknown"
       /\ confidence <= 12
       /\ title = ResidualTitle(WithoutCommandWords(text))

C13_Witness ==
    /\ pc = "done"
    /\ text = "hello there"
    /\ intent = "unknown"
    /\ title = "hello there"
    /\ confidence = 0

\* the date cues of the inputs and the day each one names, counted from dt
DateCues == {"αύριο", "δευτέρα"}

CueDate(cue, dt) ==
    IF cue = "αύριο" THEN AddDays(dt, 1) ELSE AddDays(dt, DaysToNext(Weekday(dt), 0))

\* C14: with a from/από marker the cue before it gives due_date and the cue
\* after it start_date, a cue only after the marker leaves due_date absent;
\* without a marker start_date is absent.
C14_MarkerScopes ==
    (pc = "confidence" /\ ticks = 0)
    => /\ \A due \in DateCues : \A start \in DateCues \ {due} :
            text_lower = due \o " from " \o start
            => /\ due_date = <<IsoFormat(CueDate(due, clock))>>
               /\ start_date = <<IsoFormat(CueDate(start, clock))>>
       /\ \A start \in DateCues :
            text_lower = "from " \o start
            => /\ due_date = <<>>
               /\ start_date = <<IsoFormat(CueDate(start, clock))>>
       /\ (~HasWord(text_lower, "from") /\ ~HasWord(text_lower, "από"))
            => start_date = <<>>

\* the hour range of a part-of-day word
HourRange(w) ==
    CASE w = "ξημερώματα" -> 0..5
      [] w \in {"πρωί", "πρωι"} -> 6..11
      [] w = "μεσημέρι" -> 12..14
      [] w = "απόγευμα" -> 15..18
      [] w = "βράδυ" -> 19..22

\* C15: an at-prefix or spelled hour h in 1..12 resolves to h without a
\* part-of-day word, and into the word's hour range with one.
C15_PartOfDayRange ==
    pc = "done" =>
      \A h \in 1..12 : \A f \in HourForms(h) :
         /\ text_lower = f => extracted_time = <<[hour |-> h, minute |-> 0]>>
         /\ \A w \in PartOfDayWords :
              text_lower = f \o " " \o w
              => /\ extracted_time # <<>>
                 /\ extracted_time[1].hour \in HourRange(w)

\* the time of the valid phrase of S whose notation comes first
FirstSuccess(S) ==
    IF \A p \in S : p.time = <<>> THEN <<>>
    ELSE (CHOOSE p \in S : p.time # <<>> /\
            \A q \in S : q.time # <<>> => p.notation <= q.notation).time

\* C16: the notations are tried in their fixed order and the first that
\* yields a valid time gives the result; a phrase with an hour or minute out
\* of range counts as no match, so a later notation in the text is used.
C16_FirstSuccess ==
    pc = "done" =>
      \A a \in TimePhrases :
         /\ text_lower = a.phrase => extracted_time = a.time
         /\ \A b \in TimePhrases :
              (a.notation # b.notation /\ text_lower = a.phrase \o " " \o b.phrase)
              => extracted_time = FirstSuccess({a, b})

\* one of the rules ahead of, or after, the heuristic fallback fires
OtherRuleFires(t) ==
    \/ StrongUpdate(t)
    \/ AnyFound(create_patterns, t)
    \/ AnyFound(update_patterns, t)
    \/ Found(GreekImperativePattern, t)

\* C17: when no other rule fires, the intent is create_task exactly when
\* the word task and one of for, in, with, about occur as words, and
\* unknown otherwise.
C17_HeuristicWords ==
    (pc = "entities" /\ ~OtherRuleFires(text_lower))
    => intent = IF /\ HasWord(text_lower, "task")
                   /\ \E w \in {"for", "in", "with", "about"} : HasWord(text_lower, w)
                THEN "create_task" ELSE "unknown"

\* v is not empty and neither starts nor ends with white space
Trimmed(v) == v # "" /\ ~IsSpace(Ch(v, 1)) /\ ~IsSpace(Ch(v, Len(v)))

\* C18: the value of every entity returned, structured or symbol-prefixed,
\* is trimmed and not empty.
C18_ValuesTrimmed ==
    EntitiesKnown => \A i \in 1..Len(entities) : Trimmed(entities[i].value)

\* the text a request selects: parsedTxt when originalTxt and parsedTxt are
\* both given and not empty, else text; <<>> when there is none
SelectedText(req) ==
    IF req.originalTxt \notin {<<>>, <<"">>} /\ req.parsedTxt \notin {<<>>, <<"">>}
    THEN req.parsedTxt
    ELSE IF req.text \notin {<<>>, <<"">>} THEN req.text
    ELSE <<>>

\* t has only white space
Blank(t) == \A i \in 1..Len(t) : IsSpace(Ch(t, i))

\* the request has no text to process, or a blank one
MissingOrBlank(req) == SelectedText(req) = <<>> \/ Blank(SelectedText(req)[1])

\* C19: a request without text, or with a blank text, gets status 400 and
\* the pipeline is not invoked; status 500 is the outcome of an internal
\* exception only, never of a missing or blank input.
C19_Transport ==
    pc = "responded"
    => /\ MissingOrBlank(request[1]) => (status = 400 /\ intent = "")
       /\ status = 500 => ~MissingOrBlank(request[1])

====
